---- MODULE Spec2Model ----
(***************************************************************************)
(* Model of the LinkTool block of src/src/index.js: the data model         *)
(* (_data), the EDIT/VIEW state kept in nodes.state, the two subtrees      *)
(* (inputHolder, linkContent) mounted in nodes.container, the CSS markers, *)
(* the outstanding ajax requests and the 500 ms timers of hideProgress.    *)
(*                                                                         *)
(* Strings that the code trims or tests for emptiness (links, urls, the    *)
(* text of the input) are sequences of one-character strings; a meta       *)
(* object is the set of its <<key, value>> pairs.  A missing property      *)
(* (JavaScript undefined) is UndefinedLink / UndefinedMeta.                *)
(*                                                                         *)
(* Every handler runs to completion on the UI thread, so each one is one   *)
(* action.  The block is modelled with readOnly = false (the listeners of  *)
(* makeInputHolder are installed).  The text of linkText (host name of the *)
(* link) is not modelled.                                                  *)
(***************************************************************************)
EXTENDS Integers, Sequences, FiniteSets, TLC

VARIABLES
    phase,      \* "constructed" (constructor ran) or "rendered" (render() ran)
    data,       \* this._data
    nodes,      \* this.nodes: state, container, inputHolder, progress, input, linkContent
    pending,    \* ajax requests awaiting settlement
    timers,     \* setTimeout(resolve, 500) of hideProgress not yet fired: [req, metaData]
    notifier,   \* message the last handler passed to api.notifier.show, "" if none
    thrown,     \* whether an exception left the last handler or promise callback
    nextId,     \* id of the next request
    loaded,     \* history: the data argument the constructor received
    fetched,    \* history: the links for which a fetch has completed with success and a
                \* meta with at least one key (or whose meta was loaded)
    last        \* history: the handler that ran last, its request and response, and
                \* nodes.state, _data and the text of the input when it was entered

vars == <<phase, data, nodes, pending, timers, notifier, thrown, nextId, loaded, fetched,
          last>>

----------------------------------------------------------------------------
(* Bounds and input sets *)

MaxFetches == 2

UndefinedLink == <<"undefined">>
UndefinedMeta == {<<"undefined", "undefined">>}

EmptyString == <<>>

Urls == {EmptyString, <<"a">>}

MetaA == {<<"title", "A">>}
MetaB == {<<"title", "B">>}
EmptyMeta == {}
MetaObjects == {EmptyMeta, MetaA, MetaB}

\* options.data of the constructor: a new block ({}), and saved blocks
LoadedData ==
    {[link |-> UndefinedLink, meta |-> UndefinedMeta],
     [link |-> EmptyString, meta |-> EmptyMeta],
     [link |-> <<"a">>, meta |-> EmptyMeta],
     [link |-> <<"b">>, meta |-> MetaA]}

\* the body of a fulfilled request; NoBody is a response without a body
NoBody == [success |-> 0, meta |-> UndefinedMeta, link |-> UndefinedLink, body |-> FALSE]

Bodies ==
    {[success |-> 0, meta |-> MetaA, link |-> <<"b">>, body |-> TRUE],
     [success |-> 1, meta |-> UndefinedMeta, link |-> UndefinedLink, body |-> TRUE],
     [success |-> 1, meta |-> EmptyMeta, link |-> UndefinedLink, body |-> TRUE],
     [success |-> 1, meta |-> MetaA, link |-> UndefinedLink, body |-> TRUE],
     [success |-> 1, meta |-> MetaB, link |-> <<"b">>, body |-> TRUE]}

\* a request: the url it was started with and, as history, _data when it started,
\* whether no other request was outstanding (unsettled or in its delay) during its life,
\* and whether a later request was started while it was unsettled
NoRequest ==
    [id |-> 0, url |-> EmptyString,
     before |-> [link |-> EmptyString, meta |-> EmptyMeta], alone |-> FALSE,
     superseded |-> FALSE]

----------------------------------------------------------------------------
(* LinkTool.STATE *)

STATE_EDIT == 0
STATE_VIEW == 1

(* CSS *)
containerLoading == "link-tool--loading"
containerLoaded == "link-tool--loaded"
containerEdit == "link-tool--edit"
containerView == "link-tool--view"
containerError == "link-tool--error"
inputError == "link-tool__input-holder--error"
linkContentRendered == "link-tool__content--rendered"
progressLoading == "link-tool__progress--loading"
progressLoaded == "link-tool__progress--loaded"

(* messages of the failure path *)
MsgTransport == "Couldn't fetch the link data"
MsgNoSuccess == "Couldn't get this link data, try the other one"
MsgWrongFormat == "Wrong response format from the server"

----------------------------------------------------------------------------
(* JavaScript helpers *)

\* truthiness of a link value: undefined and '' are falsy
TruthyLink(l) == l # UndefinedLink /\ l # EmptyString

\* truthiness of a meta value: undefined is falsy, every object (also {}) is truthy
TruthyMeta(m) == m # UndefinedMeta

\* Object.keys(meta)
Keys(m) == {p[1] : p \in m}

\* meta[key], "" when the property is missing
Get(m, key) == IF key \in Keys(m) THEN (CHOOSE p \in m : p[1] = key)[2] ELSE ""

IsSpace(c) == c = " "

RECURSIVE TrimStart(_)
TrimStart(s) == IF s # <<>> /\ IsSpace(Head(s)) THEN TrimStart(Tail(s)) ELSE s

RECURSIVE TrimEnd(_)
TrimEnd(s) == IF s # <<>> /\ IsSpace(s[Len(s)]) THEN TrimEnd(SubSeq(s, 1, Len(s) - 1)) ELSE s

\* String.prototype.trim
Trim(s) == TrimEnd(TrimStart(s))

----------------------------------------------------------------------------
(* Data model *)

\* a setter that replaces _data by its argument instead of merging
setData_replace(d, arg) ==
    [link |-> IF arg.link = UndefinedLink THEN EmptyString ELSE arg.link,
     meta |-> IF arg.meta = UndefinedMeta THEN EmptyMeta ELSE arg.meta]

\* a setter that merges the link and drops the meta of its argument
setData_linkOnly(d, arg) ==
    [link |-> IF arg.link # UndefinedLink /\ arg.link # <<>> THEN arg.link ELSE d.link,
     meta |-> d.meta]

\* set data(data): the new _data computed from the old one and the argument
setData(d, arg) ==
    [link |-> IF TruthyLink(arg.link) THEN arg.link ELSE d.link,
     meta |-> IF TruthyMeta(arg.meta) THEN arg.meta ELSE d.meta]

\* get data() / save()
save == data

\* validate(): the argument the host passes is not a parameter of the method
validate(arg) == Trim(data.link) # EmptyString

----------------------------------------------------------------------------
(* DOM helpers: each maps this.nodes to this.nodes *)

\* nodes as the constructor and the make* calls of render() leave them
NewNodes ==
    [state |-> STATE_EDIT,
     container |-> {},
     containerClasses |-> {},
     holderClasses |-> {},
     progressClasses |-> {},
     progressInHolder |-> TRUE,
     input |-> EmptyString,
     linkContent |-> [children |-> {}, classes |-> {}, href |-> UndefinedLink,
                      image |-> "", title |-> "", description |-> ""]]

\* the part of showLinkPreview that fills nodes.linkContent
fillLinkContent(lc, meta, link) ==
    [children |-> lc.children
                    \cup (IF Get(meta, "image") # "" THEN {"linkImage"} ELSE {})
                    \cup (IF Get(meta, "title") # "" THEN {"linkTitle"} ELSE {})
                    \cup (IF Get(meta, "description") # "" THEN {"linkDescription"} ELSE {})
                    \cup {"linkText"},
     classes |-> lc.classes \cup {linkContentRendered},
     href |-> link,
     image |-> IF Get(meta, "image") # "" THEN Get(meta, "image") ELSE lc.image,
     title |-> IF Get(meta, "title") # "" THEN Get(meta, "title") ELSE lc.title,
     description |-> IF Get(meta, "description") # "" THEN Get(meta, "description")
                     ELSE lc.description]

\* a showLinkPreview that forgets nodes.state
showLinkPreview_keepsState(n, meta, link) ==
    [n EXCEPT !.container = @ \cup {"linkContent"},
              !.containerClasses = (@ \cup {containerView}) \ {containerEdit},
              !.linkContent = fillLinkContent(@, meta, link)]

showLinkPreview(n, meta, link) ==
    [n EXCEPT !.state = STATE_VIEW,
              !.container = @ \cup {"linkContent"},
              !.containerClasses = (@ \cup {containerView}) \ {containerEdit},
              !.linkContent = fillLinkContent(@, meta, link)]

\* removeChild throws unless the node is a child of the container
canHideLinkPreview(n) == "linkContent" \in n.container

\* a hideLinkPreview that leaves the preview in the container
hideLinkPreview_keeps(n) == n

hideLinkPreview(n) == [n EXCEPT !.container = @ \ {"linkContent"}]

showInputHolder(n) ==
    [n EXCEPT !.state = STATE_EDIT,
              !.container = @ \cup {"inputHolder"},
              !.containerClasses = (@ \ {containerLoaded, containerView}) \cup {containerEdit},
              !.progressClasses = @ \ {progressLoaded}]

canHideInputHolder(n) == "inputHolder" \in n.container

\* a hideInputHolder that leaves the input in the container
hideInputHolder_keeps(n) == n

hideInputHolder(n) == [n EXCEPT !.container = @ \ {"inputHolder"}]

showProgress(n) ==
    [n EXCEPT !.containerClasses = @ \cup {containerLoading},
              !.progressClasses = @ \cup {progressLoading}]

\* a hideProgress that leaves the loading classes on until the preview is mounted
hideProgress_keepsLoading(n) ==
    [n EXCEPT !.containerClasses = @ \cup {containerLoaded},
              !.progressClasses = @ \cup {progressLoaded}]

\* the synchronous part of hideProgress; the timer is added by onFetch
hideProgress(n) ==
    [n EXCEPT !.containerClasses = (@ \ {containerLoading}) \cup {containerLoaded},
              !.progressClasses = (@ \ {progressLoading}) \cup {progressLoaded}]

\* an applyErrorStyle that marks the input holder only
applyErrorStyle_holderOnly(n) ==
    [n EXCEPT !.containerClasses = @ \ {containerLoading},
              !.holderClasses = @ \cup {inputError},
              !.progressInHolder = FALSE]

applyErrorStyle(n) ==
    [n EXCEPT !.containerClasses = (@ \cup {containerError}) \ {containerLoading},
              !.holderClasses = @ \cup {inputError},
              !.progressInHolder = FALSE]

\* a removeErrorStyle that clears the marker of the input holder only
removeErrorStyle_holderOnly(n) ==
    [n EXCEPT !.holderClasses = @ \ {inputError},
              !.progressInHolder = TRUE]

removeErrorStyle(n) ==
    [n EXCEPT !.containerClasses = @ \ {containerError},
              !.holderClasses = @ \ {inputError},
              !.progressInHolder = TRUE]

----------------------------------------------------------------------------
(* Observations used by the properties *)

BlockState == nodes.state
InputMounted == "inputHolder" \in nodes.container
PreviewMounted == "linkContent" \in nodes.container
ErrorFlag == containerError \in nodes.containerClasses /\ inputError \in nodes.holderClasses
Loading == containerLoading \in nodes.containerClasses

Outstanding == pending \cup {t.req : t \in timers}

\* the record of a handler that is entered in the current state
Handled(op, req, resp) ==
    [op |-> op, req |-> req, resp |-> resp,
     stateBefore |-> nodes.state, dataBefore |-> data, inputBefore |-> nodes.input,
     errorBefore |-> ErrorFlag]

----------------------------------------------------------------------------
(* Initial state: the constructor has run with options.data = loaded *)

Init ==
    /\ loaded \in LoadedData
    /\ phase = "constructed"
    /\ data = setData([link |-> EmptyString, meta |-> EmptyMeta], loaded)
    /\ nodes = NewNodes
    /\ pending = {}
    /\ timers = {}
    /\ notifier = ""
    /\ thrown = FALSE
    /\ nextId = 1
    /\ fetched = IF Cardinality(Keys(data.meta)) # 0 THEN {data.link} ELSE {}
    /\ last = [op |-> "constructor", req |-> NoRequest, resp |-> NoBody,
               stateBefore |-> STATE_EDIT,
               dataBefore |-> [link |-> EmptyString, meta |-> EmptyMeta],
               inputBefore |-> EmptyString, errorBefore |-> FALSE]

----------------------------------------------------------------------------
(* Handlers *)

\* render(): mounts the preview when the data has meta keys, the input otherwise
render ==
    /\ phase = "constructed"
    /\ phase' = "rendered"
    /\ nodes' = IF Cardinality(Keys(data.meta)) # 0
                THEN showLinkPreview([NewNodes EXCEPT !.container = @ \cup {"linkContent"}],
                                     data.meta, data.link)
                ELSE showInputHolder(NewNodes)
    /\ notifier' = ""
    /\ thrown' = FALSE
    /\ last' = Handled("render", NoRequest, NoBody)
    /\ UNCHANGED <<data, pending, timers, nextId, loaded, fetched>>

\* the user edits the text of nodes.input (possible while the input is in the document)
typeInput(text) ==
    /\ phase = "rendered"
    /\ InputMounted
    /\ text # nodes.input
    /\ nodes' = [nodes EXCEPT !.input = text]
    /\ notifier' = ""
    /\ thrown' = FALSE
    /\ last' = Handled("input", NoRequest, NoBody)
    /\ UNCHANGED <<phase, data, pending, timers, nextId, loaded, fetched>>

NotAlone(req) == [req EXCEPT !.alone = FALSE]

Superseded(req) == [req EXCEPT !.superseded = TRUE]

\* fetchLinkData(url) up to its await, entered with nodes n; op names the caller
fetchLinkData(n, url, op) ==
    LET req == [id |-> nextId, url |-> url, before |-> data,
                alone |-> Outstanding = {}, superseded |-> FALSE]
    IN  /\ nextId <= MaxFetches
        /\ nodes' = showProgress(n)
        /\ data' = setData(data, [link |-> url, meta |-> UndefinedMeta])
        /\ pending' = {Superseded(NotAlone(r)) : r \in pending} \cup {req}
        /\ timers' = {[t EXCEPT !.req = NotAlone(@)] : t \in timers}
        /\ nextId' = nextId + 1
        /\ notifier' = ""
        /\ thrown' = FALSE
        /\ last' = Handled(op, req, NoBody)
        /\ UNCHANGED <<phase, loaded, fetched>>

\* a startFetching that fetches the persisted link instead of the text of the input
startFetching_persistedLink(url, op) == fetchLinkData(removeErrorStyle(nodes), data.link, op)

\* startFetching(event): url is the text of the input, or the clipboard text on paste
startFetching(url, op) == fetchLinkData(removeErrorStyle(nodes), url, op)

\* click on the button, or Enter in the input
submit ==
    /\ phase = "rendered"
    /\ InputMounted
    /\ startFetching(nodes.input, "startFetching")

\* paste into the input: the handler reads the clipboard; the browser then inserts the
\* text (here into an input whose content is empty or selected)
paste(text) ==
    /\ phase = "rendered"
    /\ InputMounted
    /\ fetchLinkData([removeErrorStyle(nodes) EXCEPT !.input = text], text, "startFetching")

\* changeState(state), called by onActivate with the state the block is not in
changeState(state) ==
    IF state = STATE_EDIT
    THEN /\ IF canHideLinkPreview(nodes)
            THEN /\ nodes' = showInputHolder(hideLinkPreview(nodes))
                 /\ thrown' = FALSE
            ELSE /\ nodes' = nodes
                 /\ thrown' = TRUE
         /\ notifier' = ""
         /\ last' = Handled("toggleToEdit", NoRequest, NoBody)
         /\ UNCHANGED <<phase, data, pending, timers, nextId, loaded, fetched>>
    ELSE startFetching(nodes.input, "toggleToView")

\* onActivate of the settings toggle
onActivate ==
    /\ phase = "rendered"
    /\ changeState(IF nodes.state = 0 THEN 1 ELSE 0)

\* a fetchingFailed that mounts the preview of the stored meta after marking the error
fetchingFailed_showsPreview(errorMessage) ==
    /\ notifier' = errorMessage
    /\ nodes' = showLinkPreview(hideInputHolder(applyErrorStyle(nodes)), data.meta, data.link)
    /\ timers' = timers

\* fetchingFailed(errorMessage)
fetchingFailed(errorMessage) ==
    /\ notifier' = errorMessage
    /\ nodes' = applyErrorStyle(nodes)
    /\ timers' = timers

\* the request r is rejected (network error, non-2xx, timeout): the catch of fetchLinkData
transportFailure(r) ==
    /\ r \in pending
    /\ pending' = pending \ {r}
    /\ fetchingFailed(MsgTransport)
    /\ thrown' = FALSE
    /\ last' = Handled("transportFailure", r, NoBody)
    /\ UNCHANGED <<phase, data, nextId, loaded, fetched>>

\* the request r is fulfilled with body `response`: onFetch(response)
onFetch(r, response) ==
    /\ r \in pending
    /\ pending' = pending \ {r}
    /\ IF ~response.body \/ response.success = 0
       THEN /\ fetchingFailed(MsgNoSuccess)
            /\ data' = data
            /\ fetched' = fetched
       ELSE /\ data' = setData(data, [meta |-> response.meta,
                                      link |-> IF TruthyLink(response.link)
                                               THEN response.link ELSE data.link])
            /\ IF ~TruthyMeta(response.meta)
               THEN /\ fetchingFailed(MsgWrongFormat)
                    /\ fetched' = fetched
               ELSE /\ nodes' = hideProgress(nodes)
                    /\ timers' = timers \cup {[req |-> r, metaData |-> response.meta,
                                               resp |-> response]}
                    /\ notifier' = ""
                    /\ fetched' = IF Cardinality(Keys(response.meta)) # 0
                                  THEN fetched \cup {data'.link} ELSE fetched
    /\ thrown' = FALSE
    /\ last' = Handled("onFetch", r, response)
    /\ UNCHANGED <<phase, nextId, loaded>>

\* the 500 ms timer of hideProgress fires: the then-callback of onFetch
timerFires(t) ==
    /\ t \in timers
    /\ timers' = timers \ {t}
    /\ IF canHideInputHolder(nodes)
       THEN /\ nodes' = showLinkPreview(hideInputHolder(nodes), t.metaData, data.link)
            /\ thrown' = FALSE
       ELSE /\ nodes' = nodes
            /\ thrown' = TRUE
    /\ notifier' = ""
    /\ last' = Handled("timer", t.req, t.resp)
    /\ UNCHANGED <<phase, data, pending, nextId, loaded, fetched>>

Next ==
    \/ render
    \/ \E text \in Urls : typeInput(text)
    \/ submit
    \/ \E text \in Urls : paste(text)
    \/ onActivate
    \/ \E r \in pending : transportFailure(r)
    \/ \E r \in pending : \E response \in Bodies \cup {NoBody} : onFetch(r, response)
    \/ \E t \in timers : timerFires(t)

Spec == Init /\ [][Next]_vars

----------------------------------------------------------------------------
(* Properties *)

\* a meta value with at least one key
HasKeys(m) == TruthyMeta(m) /\ Cardinality(Keys(m)) # 0

\* the last handler was onFetch with a body whose success is falsy
FalsySuccessHandled == last.op = "onFetch" /\ last.resp.body /\ last.resp.success = 0

\* the last handler was onFetch with a body whose success is truthy and without meta
NoMetaHandled ==
    last.op = "onFetch" /\ last.resp.body /\ last.resp.success # 0
    /\ ~TruthyMeta(last.resp.meta)

\* the last handler was the delay callback of a response with truthy success and a meta
DelayElapsed == last.op = "timer"

\* C1: right after render(), the block is in VIEW with the preview mounted and the
\* input not mounted if the loaded data's meta has at least one key, and otherwise in
\* EDIT with the input mounted and no preview mounted.
C1_RenderMountsByMeta ==
    last.op = "render" =>
        IF HasKeys(loaded.meta)
        THEN BlockState = STATE_VIEW /\ PreviewMounted /\ ~InputMounted
        ELSE BlockState = STATE_EDIT /\ InputMounted /\ ~PreviewMounted

C1_Witness ==
    last.op = "render" /\ HasKeys(loaded.meta) /\ BlockState = STATE_VIEW /\ PreviewMounted

\* C2 as stated: once the delay of a response with truthy success and a meta has
\* elapsed, _data is {link: response.link if provided, else the fetch's url;
\* meta: response.meta} and the block is in VIEW.
C2_Original ==
    DelayElapsed =>
        /\ data = [link |-> IF last.resp.link # UndefinedLink THEN last.resp.link
                            ELSE last.req.url,
                   meta |-> last.resp.meta]
        /\ BlockState = STATE_VIEW

\* C2 amended: once that delay has elapsed the block is in VIEW; and if no other fetch
\* was outstanding during the life of this one, _data.meta is response.meta and
\* _data.link is response.link if non-empty, else the url if non-empty, else the link
\* stored before the fetch.
C2_SuccessSetsDataAndView ==
    DelayElapsed =>
        /\ BlockState = STATE_VIEW
        /\ last.req.alone =>
              data = [link |-> IF TruthyLink(last.resp.link) THEN last.resp.link
                               ELSE IF TruthyLink(last.req.url) THEN last.req.url
                               ELSE last.req.before.link,
                      meta |-> last.resp.meta]

C2_Witness ==
    /\ DelayElapsed /\ last.req.alone /\ last.req.url = <<"a">>
    /\ last.resp.link = UndefinedLink /\ last.resp.meta = MetaA
    /\ data = [link |-> <<"a">>, meta |-> MetaA]
    /\ BlockState = STATE_VIEW

\* C3 as stated: after a response with falsy success to a fetch of url U, the block is
\* in EDIT, the error flag is set, _data.link is U and _data.meta is what it was when
\* the fetch started.
C3_Original ==
    FalsySuccessHandled =>
        /\ BlockState = STATE_EDIT
        /\ ErrorFlag
        /\ data.link = last.req.url
        /\ data.meta = last.req.before.meta

\* C3 amended: after such a response the error flag is set and a block that was in EDIT
\* is still in EDIT; and if no other fetch was outstanding during the life of this one,
\* the block is in EDIT, _data.meta is what it was when the fetch started and
\* _data.link is U if U is non-empty, else the link stored before the fetch.
C3_FalsySuccessKeepsEdit ==
    FalsySuccessHandled =>
        /\ ErrorFlag
        /\ last.stateBefore = STATE_EDIT => BlockState = STATE_EDIT
        /\ last.req.alone =>
              /\ BlockState = STATE_EDIT
              /\ data.meta = last.req.before.meta
              /\ data.link = IF TruthyLink(last.req.url) THEN last.req.url
                             ELSE last.req.before.link

C3_Witness ==
    /\ FalsySuccessHandled /\ last.req.alone /\ last.req.url = <<"a">>
    /\ last.req.before = [link |-> <<"b">>, meta |-> MetaA]
    /\ data = [link |-> <<"a">>, meta |-> MetaA]
    /\ BlockState = STATE_EDIT /\ ErrorFlag

\* C4: a response with truthy success and no meta takes the failure path with the
\* "wrong response format" message: the notification is shown, the error flag is set,
\* no preview mount is scheduled for that response, and a block in EDIT stays in EDIT
\* with no preview mounted.
C4_NoMetaFails ==
    NoMetaHandled =>
        /\ notifier = MsgWrongFormat
        /\ ErrorFlag
        /\ \A t \in timers : t.req.id # last.req.id
        /\ last.stateBefore = STATE_EDIT => BlockState = STATE_EDIT /\ ~PreviewMounted

C4_Witness ==
    /\ NoMetaHandled /\ last.stateBefore = STATE_EDIT
    /\ notifier = MsgWrongFormat /\ ErrorFlag /\ BlockState = STATE_EDIT

\* C5 as stated: in every state _data.meta has at least one key if and only if a
\* successful fetch has completed for the current value of _data.link.
C5_Original == HasKeys(data.meta) <=> data.link \in fetched

\* arguments a host may pass to validate
ValidateArgs == [link : {EmptyString, <<" ", " ">>, <<"x">>, <<" ", "x", " ">>},
                 meta : {EmptyMeta}]

\* C7 as stated: validate(arg) is true exactly when the link of its argument, trimmed,
\* is non-empty, whatever _data holds.
C7_Original == \A arg \in ValidateArgs : validate(arg) = (Trim(arg.link) # EmptyString)

\* C8: the settings toggle activated in VIEW leaves the block in EDIT with the preview
\* unmounted and the input mounted, and leaves _data as it was.
C8_ToggleToEditKeepsData ==
    last.op = "toggleToEdit" =>
        /\ last.stateBefore = STATE_VIEW
        /\ BlockState = STATE_EDIT
        /\ ~PreviewMounted
        /\ InputMounted
        /\ data = last.dataBefore

C8_Witness ==
    /\ last.op = "toggleToEdit" /\ BlockState = STATE_EDIT /\ InputMounted
    /\ data = [link |-> <<"b">>, meta |-> MetaA]

\* C9: the settings toggle activated in EDIT starts a fetch of the text of the input
\* and leaves the block in EDIT; and a block that a handler found in EDIT is in VIEW
\* after it only if the handler is the delay callback of a response with truthy
\* success and a meta.
C9_ToggleToViewFetchesInput ==
    /\ last.op = "toggleToView" =>
          /\ last.stateBefore = STATE_EDIT
          /\ last.req.url = nodes.input
          /\ last.req \in pending
          /\ BlockState = STATE_EDIT
    /\ (last.op \notin {"constructor", "render"} /\ last.stateBefore = STATE_EDIT
            /\ BlockState = STATE_VIEW) =>
          /\ DelayElapsed
          /\ last.resp.body /\ last.resp.success # 0 /\ TruthyMeta(last.resp.meta)

C9_Witness ==
    /\ last.op = "toggleToView" /\ nodes.input = <<"a">> /\ last.req.url = <<"a">>
    /\ last.dataBefore.link = <<"b">> /\ last.req \in pending

\* C10: while no fetch has been started, save() returns the LinkData the block was
\* constructed with, also after settings toggles from VIEW to EDIT.
C10_SaveRoundTrips ==
    (nextId = 1 /\ loaded.link # UndefinedLink /\ loaded.meta # UndefinedMeta) =>
        save = loaded

C10_Witness ==
    /\ nextId = 1 /\ last.op = "toggleToEdit"
    /\ loaded = [link |-> <<"b">>, meta |-> MetaA] /\ save = loaded

----------------------------------------------------------------------------
(* The setter alone: any _data, any sequence of assignments to `data` *)

DataModels == [link : {EmptyString, <<"a">>, <<"b">>}, meta : MetaObjects]

SetterArgs == [link : {UndefinedLink, EmptyString, <<"a">>, <<"b">>},
               meta : {UndefinedMeta} \cup MetaObjects]

NoArg == [link |-> UndefinedLink, meta |-> UndefinedMeta]

InitData ==
    /\ data \in DataModels
    /\ last = [op |-> "none", arg |-> NoArg, dataBefore |-> data, prevArg |-> NoArg]
    /\ loaded = NoArg
    /\ phase = "constructed"
    /\ nodes = NewNodes
    /\ pending = {}
    /\ timers = {}
    /\ notifier = ""
    /\ thrown = FALSE
    /\ nextId = 1
    /\ fetched = {}

\* this.data = arg
assignData(arg) ==
    /\ data' = setData(data, arg)
    /\ last' = [op |-> "setData", arg |-> arg, dataBefore |-> data, prevArg |-> last.arg]
    /\ UNCHANGED <<phase, nodes, pending, timers, notifier, thrown, nextId, loaded, fetched>>

NextData == \E arg \in SetterArgs : assignData(arg)

SpecData == InitData /\ [][NextData]_vars

OnlyLink(arg) == arg.link # UndefinedLink /\ arg.meta = UndefinedMeta
OnlyMeta(arg) == arg.link = UndefinedLink /\ arg.meta # UndefinedMeta

\* C6 as stated: an assignment of only a link leaves meta as it was, an assignment of
\* only a meta leaves link as it was, and {link: a} followed by {meta: m} yields
\* {link: a, meta: m}, for every a and m.
C6_Original ==
    last.op = "setData" =>
        /\ OnlyLink(last.arg) => data.meta = last.dataBefore.meta
        /\ OnlyMeta(last.arg) => data.link = last.dataBefore.link
        /\ (OnlyMeta(last.arg) /\ OnlyLink(last.prevArg)) =>
              data = [link |-> last.prevArg.link, meta |-> last.arg.meta]

\* C6 amended: the same, the last part for every non-empty a (an empty a leaves the
\* link as it was).
C6_SetDataMerges ==
    last.op = "setData" =>
        /\ OnlyLink(last.arg) => data.meta = last.dataBefore.meta
        /\ OnlyMeta(last.arg) => data.link = last.dataBefore.link
        /\ (OnlyMeta(last.arg) /\ OnlyLink(last.prevArg) /\ last.prevArg.link # EmptyString) =>
              data = [link |-> last.prevArg.link, meta |-> last.arg.meta]

C6_Witness ==
    /\ last.op = "setData" /\ last.prevArg = [link |-> <<"a">>, meta |-> UndefinedMeta]
    /\ last.arg = [link |-> UndefinedLink, meta |-> MetaA]
    /\ last.dataBefore = [link |-> <<"a">>, meta |-> MetaB]
    /\ data = [link |-> <<"a">>, meta |-> MetaA]

----------------------------------------------------------------------------
(* Properties of the failure path, of overlapping fetches and of the markers *)

\* the last handler handled a failure: a rejected request, a body with falsy success,
\* or a body with truthy success and no meta
FailureHandled ==
    \/ last.op = "transportFailure"
    \/ FalsySuccessHandled
    \/ NoMetaHandled

\* C11 as stated: after any of the three failure kinds has been handled the block is in
\* EDIT, whether it was in EDIT or in VIEW when the failure arrived, and the text of the
\* input is what it was.
C11_Original ==
    FailureHandled => BlockState = STATE_EDIT /\ nodes.input = last.inputBefore

\* the last handler belongs to a request that was still unanswered when a later
\* fetch was started, and that was answered with truthy success and a meta
OverlappedSuccess ==
    /\ last.req.superseded
    /\ last.resp.body
    /\ last.resp.success # 0
    /\ TruthyMeta(last.resp.meta)

\* C12 as stated: the successful response of a fetch that a later fetch has overlapped
\* still overwrites data.meta, and once its delay has elapsed the mounted preview is
\* populated from the meta of that response, in whichever order the responses arrive.
C12_Original ==
    /\ last.op = "onFetch" /\ OverlappedSuccess => data.meta = last.resp.meta
    /\ DelayElapsed /\ OverlappedSuccess /\ Get(last.resp.meta, "title") # ""
           => PreviewMounted /\ nodes.linkContent.title = Get(last.resp.meta, "title")

\* C13 as stated: no sequence of submits, settings toggles, fetch completions and
\* delay-timer firings raises an exception; the input and the preview are only unmounted
\* in states where they are mounted.
C13_Original == ~thrown

\* C14: in every state after render() exactly one of the input subtree and the preview
\* subtree is mounted in the container: the input iff the block is in EDIT, the preview
\* iff it is in VIEW.
C14_OneSubtreeMounted ==
    phase = "rendered" =>
        /\ InputMounted <=> BlockState = STATE_EDIT
        /\ PreviewMounted <=> BlockState = STATE_VIEW
        /\ InputMounted # PreviewMounted

C14_Witness ==
    /\ DelayElapsed /\ ~thrown /\ pending # {}
    /\ BlockState = STATE_VIEW /\ PreviewMounted /\ ~InputMounted

\* C15: after render(), every step that takes the block from EDIT to VIEW is the delay
\* callback of a response with truthy success and a meta, mounting the preview of that
\* meta; no submit, settings toggle, failure or response handler does it.
C15_EditToViewOnlyBySuccess ==
    [][(phase = "rendered" /\ nodes.state = STATE_EDIT /\ nodes'.state = STATE_VIEW) =>
          \E t \in timers :
              /\ timers' = timers \ {t}
              /\ t.resp.body /\ t.resp.success # 0 /\ TruthyMeta(t.resp.meta)
              /\ nodes' = showLinkPreview(hideInputHolder(nodes), t.resp.meta, data.link)
              /\ UNCHANGED <<data, pending>>]_vars

C15_Witness ==
    /\ DelayElapsed /\ last.stateBefore = STATE_EDIT /\ BlockState = STATE_VIEW
    /\ last.resp.success # 0 /\ last.resp.meta = MetaB /\ nodes.linkContent.title = "B"

\* the fetch started last, while it is unanswered
LatestUnsettled(r) == r \in pending /\ r.id = nextId - 1

\* C16 as stated: while a fetch of url is the latest one started and unsettled,
\* _data.link equals url, for every url including the empty string.
C16_Original == \A r \in pending : LatestUnsettled(r) => data.link = r.url

\* what fetchLinkData leaves in _data.link for the request r
LinkAtStart(r) == IF r.url # EmptyString THEN r.url ELSE r.before.link

\* C16: right after the handler that started a fetch of url, and for as long as that
\* fetch is unanswered with no other fetch outstanding, _data.link is url when url is
\* not empty and the link stored before the fetch when url is the empty string.
C16_LinkSetAtStart ==
    /\ last.op \in {"startFetching", "toggleToView"} =>
           LatestUnsettled(last.req) /\ data.link = LinkAtStart(last.req)
    /\ \A r \in pending : r.alone => LatestUnsettled(r) /\ data.link = LinkAtStart(r)

C16_Witness ==
    /\ last.op = "input"
    /\ \E r \in pending : /\ r.alone /\ r.url = <<"a">> /\ r.before.link = <<"b">>
                          /\ data.link = <<"a">>

\* the last handler called fetchingFailed: one of the three failure kinds, or a
\* fulfilled request without a body
FetchingFailed == FailureHandled \/ (last.op = "onFetch" /\ ~last.resp.body)

\* the last handler started a fetch attempt
FetchStarted == last.op \in {"startFetching", "toggleToView"}

\* C17: every fetch failure sets the error flag, the start of every fetch attempt
\* clears it (from the container and from the input holder), and neither changes
\* BlockState.
C17_ErrorFlagSetAndCleared ==
    /\ FetchingFailed => ErrorFlag /\ BlockState = last.stateBefore
    /\ FetchStarted =>
           /\ containerError \notin nodes.containerClasses
           /\ inputError \notin nodes.holderClasses
           /\ BlockState = last.stateBefore

C17_Witness ==
    /\ FetchStarted /\ last.errorBefore /\ ~ErrorFlag
    /\ containerError \notin nodes.containerClasses
    /\ BlockState = STATE_EDIT /\ last.stateBefore = STATE_EDIT

\* the last handler settled a request: its response or its rejection was handled
Settled == last.op \in {"onFetch", "transportFailure"}

\* the last handler was onFetch taking the success path
SuccessHandled ==
    last.op = "onFetch" /\ last.resp.body /\ last.resp.success # 0
    /\ TruthyMeta(last.resp.meta)

\* the progress bar is shown in its loading or in its loaded style
IndicatorOn ==
    Loading \/ (containerLoaded \in nodes.containerClasses /\ nodes.progressInHolder)

\* C18 as stated: the loading indicator is turned on when a fetch starts and is still on
\* right after the fetch has settled, on the success and on the failure outcome; it is
\* cleared only when the delay that follows has elapsed.
C18_Original ==
    /\ FetchStarted => IndicatorOn
    /\ Settled /\ last.req.alone => IndicatorOn

\* C18: the loading marker is on after the start of a fetch and off right after any
\* settlement; on success the loaded marker replaces it and only the mounting of the
\* preview waits for the delay, on failure the progress bar is removed at once and no
\* delay is started.
C18_LoadingClearedAtSettlement ==
    /\ FetchStarted => Loading /\ progressLoading \in nodes.progressClasses
    /\ Settled => ~Loading
    /\ SuccessHandled =>
           /\ containerLoaded \in nodes.containerClasses
           /\ progressLoading \notin nodes.progressClasses
           /\ \E t \in timers : t.req = last.req
           /\ BlockState = last.stateBefore
    /\ FetchingFailed =>
           /\ ~nodes.progressInHolder
           /\ \A t \in timers : t.req # last.req

C18_Witness ==
    /\ SuccessHandled /\ last.req.alone /\ ~Loading
    /\ containerLoaded \in nodes.containerClasses
    /\ BlockState = STATE_EDIT /\ InputMounted /\ timers # {}

\* the state render() leaves a block in whose constructor was given d
RenderedState(d) ==
    IF Cardinality(Keys(setData([link |-> EmptyString, meta |-> EmptyMeta], d).meta)) # 0
    THEN STATE_VIEW ELSE STATE_EDIT

\* C19 as stated: whenever the block is in VIEW, _data.meta has at least one key, so a
\* new block constructed from the save() output of a block in VIEW renders in VIEW.
C19_Original ==
    BlockState = STATE_VIEW =>
        Cardinality(Keys(data.meta)) # 0 /\ RenderedState(save) = STATE_VIEW

\* C20: no handler makes a non-empty _data.link empty; a fetch started with the empty
\* url and a response without a link leave the stored link as it was.
C20_LinkNeverEmptied ==
    /\ last.dataBefore.link # EmptyString => data.link # EmptyString
    /\ FetchStarted /\ last.req.url = EmptyString => data.link = last.dataBefore.link
    /\ last.op = "onFetch" /\ ~TruthyLink(last.resp.link) => data.link = last.dataBefore.link

C20_Witness ==
    /\ FetchStarted /\ last.req.url = EmptyString
    /\ last.dataBefore.link = <<"b">> /\ data.link = <<"b">>

====
